---- MODULE Spec2Model ----
(***************************************************************************)
(* Model of search_article_with_word: the streaming hierarchy tracker and  *)
(* matcher search_xml (src/src/lib.rs).                                    *)
(*                                                                         *)
(* Representation.  Option<T> is a sequence of length at most one: <<>> is *)
(* None and <<v>> is Some(v).  A String is the sequence of its code units  *)
(* (small naturals), so that substring search and the derived              *)
(* lexicographic order are computed, not assumed.                          *)
(***************************************************************************)
EXTENDS Integers, Sequences, FiniteSets

\* Bound on the number of events one document delivers before end of stream.
MaxEvents == 4

None == <<>>
Some(v) == <<v>>
IsSome(o) == o # <<>>

\* The strings that occur as attribute values and text nodes.
S1 == <<1>>
S2 == <<2>>
S12 == <<1, 2>>
S21 == <<2, 1>>
S212 == <<2, 1, 2>>
EmptyStr == <<>>

\* The search terms tried (search_str).
SearchTerms == {S12}

\* Decoded text nodes an event source delivers (trim_text drops empty ones):
\* the term itself, a text with the term inside it, and a text without it.
Texts == {S12, S212, S21}

\* Attribute lists carried by a start tag, in document order.
TagAttrs ==
  { <<>>,
    <<[key |-> "Num", value |-> S1]>>,
    <<[key |-> "Hide", value |-> S1], [key |-> "Num", value |-> S2]>>,
    <<[key |-> "AmendLawNum", value |-> S1]>>,
    <<[key |-> "AmendLawNum", value |-> EmptyStr]>> }

\* tag.attributes().find(|a| key == k).map(|a| value): the value of the
\* first attribute named k, or None.
RECURSIVE FindAttr(_, _)
FindAttr(attrs, k) ==
  IF attrs = <<>> THEN None
  ELSE IF Head(attrs).key = k THEN Some(Head(attrs).value)
  ELSE FindAttr(Tail(attrs), k)

\* Chapter::default()
DefaultChapter ==
  [ part |-> None, chapter |-> None, section |-> None, subsection |-> None,
    division |-> None, article |-> EmptyStr, paragraph |-> None,
    item |-> None, sub_item |-> None, suppl_provision_title |-> None ]

\* A counter that is set once and never incremented.
Bump_NoIncrement(c) == IF c = None THEN Some(1) ELSE c

\* match c { Some(n) => Some(n + 1), None => Some(1) }
Bump(c) == IF c = None THEN Some(1) ELSE Some(c[1] + 1)

\* A search that only looks at the beginning of the text.
Contains_PrefixOnly(text, term) ==
  /\ Len(term) <= Len(text)
  /\ \A j \in 1..Len(term) : text[j] = term[j]

\* str::contains: the term occurs in the text as a contiguous substring.
Contains(text, term) ==
  \E i \in 0..Len(text) :
    /\ i + Len(term) <= Len(text)
    /\ \A j \in 1..Len(term) : text[i + j] = term[j]

(***************************************************************************)
(* derive(PartialOrd, Ord) on Chapter: fields compared in declared order.  *)
(* Each comparison returns -1, 0 or 1.                                     *)
(***************************************************************************)
CmpNat(a, b) == IF a < b THEN -1 ELSE IF a > b THEN 1 ELSE 0

RECURSIVE CmpStr(_, _)
CmpStr(a, b) ==
  IF a = <<>> /\ b = <<>> THEN 0
  ELSE IF a = <<>> THEN -1
  ELSE IF b = <<>> THEN 1
  ELSE IF Head(a) # Head(b) THEN CmpNat(Head(a), Head(b))
  ELSE CmpStr(Tail(a), Tail(b))

CmpOptNat(a, b) ==
  IF a = None /\ b = None THEN 0
  ELSE IF a = None THEN -1
  ELSE IF b = None THEN 1
  ELSE CmpNat(a[1], b[1])

CmpOptStr(a, b) ==
  IF a = None /\ b = None THEN 0
  ELSE IF a = None THEN -1
  ELSE IF b = None THEN 1
  ELSE CmpStr(a[1], b[1])

CmpSubItem(a, b) ==
  IF a = None /\ b = None THEN 0
  ELSE IF a = None THEN -1
  ELSE IF b = None THEN 1
  ELSE IF CmpNat(a[1][1], b[1][1]) # 0 THEN CmpNat(a[1][1], b[1][1])
  ELSE CmpStr(a[1][2], b[1][2])

RECURSIVE FirstNonZero(_)
FirstNonZero(cs) ==
  IF cs = <<>> THEN 0
  ELSE IF Head(cs) # 0 THEN Head(cs)
  ELSE FirstNonZero(Tail(cs))

CmpChapter(a, b) ==
  FirstNonZero(<< CmpOptNat(a.part, b.part),
                  CmpOptNat(a.chapter, b.chapter),
                  CmpOptNat(a.section, b.section),
                  CmpOptNat(a.subsection, b.subsection),
                  CmpOptNat(a.division, b.division),
                  CmpStr(a.article, b.article),
                  CmpOptStr(a.paragraph, b.paragraph),
                  CmpOptStr(a.item, b.item),
                  CmpSubItem(a.sub_item, b.sub_item),
                  CmpOptStr(a.suppl_provision_title, b.suppl_provision_title) >>)

\* Insert x into the ascending sequence s after every element not greater
\* than it (a stable insertion).
RECURSIVE InsertSorted(_, _)
InsertSorted(x, s) ==
  IF s = <<>> THEN <<x>>
  ELSE IF CmpChapter(x, Head(s)) < 0 THEN <<x>> \o s
  ELSE <<Head(s)>> \o InsertSorted(x, Tail(s))

\* A sort that leaves the list in push order.
sort_Unsorted(s) == s

\* lst.sort(): the stable ascending permutation of s.
RECURSIVE sort(_)
sort(s) ==
  IF s = <<>> THEN <<>>
  ELSE InsertSorted(s[Len(s)], sort(SubSeq(s, 1, Len(s) - 1)))

\* A dedup that drops one element of an equal pair and then skips past the
\* pair, so a run of three keeps two.
RECURSIVE dedup_SkipPair(_)
dedup_SkipPair(s) ==
  IF Len(s) <= 1 THEN s
  ELSE IF s[1] = s[2] THEN <<s[1]>> \o dedup_SkipPair(Tail(Tail(s)))
  ELSE <<s[1]>> \o dedup_SkipPair(Tail(s))

\* lst.dedup(): drops every element equal to the one before it.
RECURSIVE dedup(_)
dedup(s) ==
  IF Len(s) <= 1 THEN s
  ELSE IF s[1] = s[2] THEN dedup(Tail(s))
  ELSE <<s[1]>> \o dedup(Tail(s))

(***************************************************************************)
(* State of one call of search_xml.                                        *)
(***************************************************************************)
VARIABLES
  search_str,       \* the term searched for
  chapter_num,      \* the address state
  law_num,          \* the law identifier captured so far
  is_law_num_mode,  \* capture mode
  lst,              \* the match list
  pc,               \* "loop", "returned", "failed" (Err returned), "panicked"
  result,           \* the LawParagraph returned when pc = "returned"
  nEvents,          \* number of events consumed
  pushed,           \* history: the addresses pushed to lst, in push order
  sawLawText,       \* history: a text event occurred in capture mode
  sib,              \* history: per counter kind, the number of start events
                    \* of that kind since its counter was last unset by a
                    \* higher-level or SupplProvision start (-1: not unset)
  wiped,            \* history: the fields the last event changed from a
                    \* set value to None (for article: to the empty string)
  last,             \* history: the kind of the event processed last
  numAttr,          \* history: the Num attribute the arm of the last event
                    \* looked up (None: not found, or no lookup)
  raw_data_lst,     \* main: per indexed document, what opening and searching
                    \* it gives
  idx,              \* main: number of documents taken from the stream
  is_head,          \* main: no record has been written yet
  output_file,      \* main: the chunks written to the output file, in order
  mpc               \* main: "idle", "start", "loop", "done", "failed",
                    \* "panicked"

vars == << search_str, chapter_num, law_num, is_law_num_mode, lst, pc, result,
           nEvents, pushed, sawLawText, sib, wiped, last, numAttr,
           raw_data_lst, idx, is_head, output_file, mpc >>

mainVars == << raw_data_lst, idx, is_head, output_file, mpc >>

\* main is not running: search_xml is called on its own.
MainIdle ==
  /\ raw_data_lst = <<>>
  /\ idx = 0
  /\ is_head = TRUE
  /\ output_file = <<>>
  /\ mpc = "idle"

Counters == <<"part", "chapter", "section", "subsection", "division">>
Levels == 1..5
Fields == {"part", "chapter", "section", "subsection", "division", "article",
           "paragraph", "item", "sub_item", "suppl_provision_title"}

\* The fields set in the address a and unset in the address b.
Wiped(a, b) == {f \in Fields : a[f] # <<>> /\ b[f] = <<>>}

Init ==
  /\ search_str \in SearchTerms
  /\ chapter_num = DefaultChapter
  /\ law_num = EmptyStr
  /\ is_law_num_mode = FALSE
  /\ lst = <<>>
  /\ pc = "loop"
  /\ result = [num |-> EmptyStr, chapter_data |-> <<>>]
  /\ nEvents = 0
  /\ pushed = <<>>
  /\ sawLawText = FALSE
  /\ sib = [l \in Levels |-> 0]
  /\ wiped = {}
  /\ last = "none"
  /\ numAttr = None
  /\ MainIdle

\* One more event is read from the reader inside the loop; its arm finds
\* num when it looks up the Num attribute.
ReadsNum(kind, num) ==
  /\ pc = "loop"
  /\ nEvents < MaxEvents
  /\ nEvents' = nEvents + 1
  /\ last' = kind
  /\ numAttr' = num
  /\ UNCHANGED search_str
  /\ UNCHANGED mainVars

\* One more event is read whose arm does not look up Num.
Reads(kind) == ReadsNum(kind, None)

\* History of sibling runs: a start of level l extends the run of l; a start
\* of a higher level, or of SupplProvision (level 0), begins a new run for l
\* when it leaves l's counter unset.
SibAfter(l0, next) ==
  [l \in Levels |->
     IF l = l0 THEN (IF sib[l] >= 0 THEN sib[l] + 1 ELSE -1)
     ELSE IF l0 < l THEN (IF next[Counters[l]] = None THEN 0 ELSE -1)
     ELSE sib[l]]

StartLawNum ==
  /\ Reads("StartLawNum")
  /\ is_law_num_mode' = TRUE
  /\ UNCHANGED << chapter_num, law_num, lst, pc, result, pushed, sawLawText, sib >>
  /\ wiped' = Wiped(chapter_num, chapter_num')

\* The Part arm that carries the paragraph over instead of clearing it.
PartArm_KeepParagraph(c) ==
  [ part |-> Bump(c.part), chapter |-> None, section |-> None,
    subsection |-> None, division |-> None, article |-> c.article,
    paragraph |-> c.paragraph, item |-> None, sub_item |-> None,
    suppl_provision_title |-> c.suppl_provision_title ]

\* The Chapter arm that carries the section counter over.
ChapterArm_KeepSection(c) ==
  [ part |-> c.part, chapter |-> Bump(c.chapter), section |-> c.section,
    subsection |-> None, division |-> None, article |-> c.article,
    paragraph |-> None, item |-> None, sub_item |-> None,
    suppl_provision_title |-> c.suppl_provision_title ]

\* The address a counter start event builds from the address c, per arm.
PartArm(c) ==
  [ part |-> Bump(c.part), chapter |-> None, section |-> None,
    subsection |-> None, division |-> None, article |-> c.article,
    paragraph |-> None, item |-> None, sub_item |-> None,
    suppl_provision_title |-> c.suppl_provision_title ]

ChapterArm(c) ==
  [ part |-> c.part, chapter |-> Bump(c.chapter), section |-> None,
    subsection |-> None, division |-> None, article |-> c.article,
    paragraph |-> None, item |-> None, sub_item |-> None,
    suppl_provision_title |-> c.suppl_provision_title ]

\* A Section arm that clears the article together with the deeper fields.
SectionArm_ClearArticle(c) ==
  [ part |-> c.part, chapter |-> c.chapter, section |-> Bump(c.section),
    subsection |-> None, division |-> None, article |-> EmptyStr,
    paragraph |-> None, item |-> None, sub_item |-> None,
    suppl_provision_title |-> c.suppl_provision_title ]

SectionArm(c) ==
  [ part |-> c.part, chapter |-> c.chapter, section |-> Bump(c.section),
    subsection |-> None, division |-> None, article |-> c.article,
    paragraph |-> None, item |-> None, sub_item |-> None,
    suppl_provision_title |-> c.suppl_provision_title ]

SubsectionArm(c) ==
  [ part |-> c.part, chapter |-> c.chapter, section |-> c.section,
    subsection |-> Bump(c.subsection), division |-> None,
    article |-> c.article,
    paragraph |-> None, item |-> None, sub_item |-> None,
    suppl_provision_title |-> c.suppl_provision_title ]

DivisionArm(c) ==
  [ part |-> c.part, chapter |-> c.chapter, section |-> c.section,
    subsection |-> c.subsection, division |-> Bump(c.division),
    article |-> c.article,
    paragraph |-> None, item |-> None, sub_item |-> None,
    suppl_provision_title |-> c.suppl_provision_title ]

CounterTag == <<"StartPart", "StartChapter", "StartSection", "StartSubsection",
                "StartDivision">>

\* A counter start with a match list that holds the address state itself
\* instead of copies: the entries equal to the state change with it.
CounterStart_Alias(l, next) ==
  /\ Reads(CounterTag[l])
  /\ chapter_num' = next
  /\ sib' = SibAfter(l, next)
  /\ lst' = [i \in 1..Len(lst) |->
              IF lst[i] = chapter_num THEN next ELSE lst[i]]
  /\ UNCHANGED << law_num, is_law_num_mode, pc, result, pushed, sawLawText >>
  /\ wiped' = Wiped(chapter_num, chapter_num')

CounterStart(l, next) ==
  /\ Reads(CounterTag[l])
  /\ chapter_num' = next
  /\ sib' = SibAfter(l, next)
  /\ UNCHANGED << law_num, is_law_num_mode, lst, pc, result, pushed, sawLawText >>
  /\ wiped' = Wiped(chapter_num, chapter_num')

StartPart == CounterStart(1, PartArm(chapter_num))
StartChapter == CounterStart(2, ChapterArm(chapter_num))
StartSection == CounterStart(3, SectionArm(chapter_num))
StartSubsection == CounterStart(4, SubsectionArm(chapter_num))
StartDivision == CounterStart(5, DivisionArm(chapter_num))

\* An Article arm that keeps the paragraph.
ArticleArm_KeepParagraph(c, num) ==
  [ part |-> c.part, chapter |-> c.chapter, section |-> c.section,
    subsection |-> c.subsection, division |-> c.division, article |-> num,
    paragraph |-> c.paragraph, item |-> None, sub_item |-> None,
    suppl_provision_title |-> c.suppl_provision_title ]

\* The arms that read the Num attribute and unwrap it.
ArticleArm(c, num) ==
  [ part |-> c.part, chapter |-> c.chapter, section |-> c.section,
    subsection |-> c.subsection, division |-> c.division, article |-> num,
    paragraph |-> None, item |-> None, sub_item |-> None,
    suppl_provision_title |-> c.suppl_provision_title ]

ParagraphArm(c, num) ==
  [ part |-> c.part, chapter |-> c.chapter, section |-> c.section,
    subsection |-> c.subsection, division |-> c.division,
    article |-> c.article,
    paragraph |-> Some(num), item |-> None, sub_item |-> None,
    suppl_provision_title |-> c.suppl_provision_title ]

\* An Item arm that clears the paragraph.
ItemArm_ClearParagraph(c, num) ==
  [ part |-> c.part, chapter |-> c.chapter, section |-> c.section,
    subsection |-> c.subsection, division |-> c.division,
    article |-> c.article,
    paragraph |-> None, item |-> Some(num), sub_item |-> None,
    suppl_provision_title |-> c.suppl_provision_title ]

ItemArm(c, num) ==
  [ part |-> c.part, chapter |-> c.chapter, section |-> c.section,
    subsection |-> c.subsection, division |-> c.division,
    article |-> c.article,
    paragraph |-> c.paragraph, item |-> Some(num), sub_item |-> None,
    suppl_provision_title |-> c.suppl_provision_title ]

\* A SubItem arm that records depth 1 whatever the tag.
SubItemArm_DepthOne(c, depth, num) ==
  [ part |-> c.part, chapter |-> c.chapter, section |-> c.section,
    subsection |-> c.subsection, division |-> c.division,
    article |-> c.article,
    paragraph |-> c.paragraph, item |-> c.item,
    sub_item |-> Some(<<1, num>>),
    suppl_provision_title |-> c.suppl_provision_title ]

SubItemArm(c, depth, num) ==
  [ part |-> c.part, chapter |-> c.chapter, section |-> c.section,
    subsection |-> c.subsection, division |-> c.division,
    article |-> c.article,
    paragraph |-> c.paragraph, item |-> c.item,
    sub_item |-> Some(<<depth, num>>),
    suppl_provision_title |-> c.suppl_provision_title ]

SupplProvisionArm(attrs) ==
  [ part |-> None, chapter |-> None, section |-> None, subsection |-> None,
    division |-> None, article |-> EmptyStr, paragraph |-> None,
    item |-> None, sub_item |-> None,
    suppl_provision_title |-> FindAttr(attrs, "AmendLawNum") ]

\* kind selects the arm: 0 Article, -1 Paragraph, -2 Item, 1..7 SubItem<k>.
NumTag(kind) ==
  IF kind = 0 THEN "StartArticle"
  ELSE IF kind = -1 THEN "StartParagraph"
  ELSE IF kind = -2 THEN "StartItem"
  ELSE "StartSubItem"

\* A start event, carrying the attributes a, whose arm unwraps the Num
\* attribute: a missing Num panics.
NumStartWith(kind, a) ==
  /\ ReadsNum(NumTag(kind), FindAttr(a, "Num"))
  /\ IF FindAttr(a, "Num") = None
     THEN /\ pc' = "panicked"
          /\ UNCHANGED chapter_num
     ELSE /\ pc' = pc
          /\ chapter_num' =
               IF kind = 0 THEN ArticleArm(chapter_num, FindAttr(a, "Num")[1])
               ELSE IF kind = -1 THEN ParagraphArm(chapter_num, FindAttr(a, "Num")[1])
               ELSE IF kind = -2 THEN ItemArm(chapter_num, FindAttr(a, "Num")[1])
               ELSE SubItemArm(chapter_num, kind, FindAttr(a, "Num")[1])
  /\ UNCHANGED << law_num, is_law_num_mode, lst, result, pushed, sawLawText, sib >>
  /\ wiped' = Wiped(chapter_num, chapter_num')

NumStart(kind) == \E a \in TagAttrs : NumStartWith(kind, a)

StartArticle == NumStart(0)
StartParagraph == NumStart(-1)
StartItem == NumStart(-2)
StartSubItem1 == NumStart(1)
StartSubItem2 == NumStart(2)
StartSubItem3 == NumStart(3)
StartSubItem4 == NumStart(4)
StartSubItem5 == NumStart(5)
StartSubItem6 == NumStart(6)
StartSubItem7 == NumStart(7)

\* The SupplProvision arm that forgets to start from a fresh address.
SupplProvisionStart_KeepPrimary(a) ==
  /\ Reads("StartSupplProvision")
  /\ chapter_num' = [chapter_num EXCEPT
                       !.suppl_provision_title = FindAttr(a, "AmendLawNum")]
  /\ sib' = SibAfter(0, chapter_num')
  /\ UNCHANGED << law_num, is_law_num_mode, lst, pc, result, pushed, sawLawText >>
  /\ wiped' = Wiped(chapter_num, chapter_num')

\* The start event of a SupplProvision tag carrying the attributes a.
SupplProvisionStart(a) ==
  /\ Reads("StartSupplProvision")
  /\ chapter_num' = SupplProvisionArm(a)
  /\ sib' = SibAfter(0, SupplProvisionArm(a))
  /\ UNCHANGED << law_num, is_law_num_mode, lst, pc, result, pushed, sawLawText >>
  /\ wiped' = Wiped(chapter_num, chapter_num')

StartSupplProvision == \E a \in TagAttrs : SupplProvisionStart(a)

\* Start tags the match does not name (the arm `_ => ()`).
StartOther ==
  /\ Reads("StartOther")
  /\ UNCHANGED << chapter_num, law_num, is_law_num_mode, lst, pc, result,
                  pushed, sawLawText, sib >>
  /\ wiped' = Wiped(chapter_num, chapter_num')

EndLawNum ==
  /\ Reads("EndLawNum")
  /\ is_law_num_mode' = FALSE
  /\ UNCHANGED << chapter_num, law_num, lst, pc, result, pushed, sawLawText, sib >>
  /\ wiped' = Wiped(chapter_num, chapter_num')

\* An end tag that leaves the sub-item it closes.
EndOther_PopSubItem ==
  /\ Reads("EndOther")
  /\ chapter_num' = [chapter_num EXCEPT !.sub_item = None]
  /\ UNCHANGED << law_num, is_law_num_mode, lst, pc, result,
                  pushed, sawLawText, sib >>
  /\ wiped' = Wiped(chapter_num, chapter_num')

\* End tags of every other element, recognised as a start tag or not.
EndOther ==
  /\ Reads("EndOther")
  /\ UNCHANGED << chapter_num, law_num, is_law_num_mode, lst, pc, result,
                  pushed, sawLawText, sib >>
  /\ wiped' = Wiped(chapter_num, chapter_num')

\* A text event that tests the text against the term in capture mode too.
TextEvent_AlwaysSearch(t) ==
  /\ Reads("Text")
  /\ IF is_law_num_mode
     THEN /\ law_num' = t
          /\ sawLawText' = TRUE
     ELSE UNCHANGED << law_num, sawLawText >>
  /\ IF Contains(t, search_str)
     THEN /\ lst' = Append(lst, chapter_num)
          /\ pushed' = Append(pushed, chapter_num)
     ELSE UNCHANGED << lst, pushed >>
  /\ UNCHANGED << chapter_num, is_law_num_mode, pc, result, sib >>
  /\ wiped' = Wiped(chapter_num, chapter_num')

\* A text event whose bytes decode to t.
TextEvent(t) ==
  /\ Reads("Text")
  /\ IF is_law_num_mode
     THEN /\ law_num' = t
          /\ sawLawText' = TRUE
          /\ UNCHANGED << lst, pushed >>
     ELSE /\ IF Contains(t, search_str)
             THEN /\ lst' = Append(lst, chapter_num)
                  /\ pushed' = Append(pushed, chapter_num)
             ELSE UNCHANGED << lst, pushed >>
          /\ UNCHANGED << law_num, sawLawText >>
  /\ UNCHANGED << chapter_num, is_law_num_mode, pc, result, sib >>
  /\ wiped' = Wiped(chapter_num, chapter_num')

\* A text event whose bytes do not decode: `?` returns the error.
TextUndecodable ==
  /\ Reads("TextUndecodable")
  /\ pc' = "failed"
  /\ UNCHANGED << chapter_num, law_num, is_law_num_mode, lst, result,
                  pushed, sawLawText, sib >>
  /\ wiped' = Wiped(chapter_num, chapter_num')

\* An end of stream that returns a default record when nothing matched.
EofEvent_DefaultWhenEmpty ==
  /\ pc = "loop"
  /\ lst' = dedup(sort(lst))
  /\ result' = IF lst = <<>>
               THEN [num |-> EmptyStr, chapter_data |-> <<>>]
               ELSE [num |-> law_num, chapter_data |-> dedup(sort(lst))]
  /\ pc' = "returned"
  /\ UNCHANGED << search_str, chapter_num, law_num, is_law_num_mode, nEvents,
                  pushed, sawLawText, sib, wiped, numAttr >>
  /\ UNCHANGED mainVars
  /\ last' = "Eof"

\* Event::Eof: leave the loop, sort, dedup and return the record.
EofEvent ==
  /\ pc = "loop"
  /\ lst' = dedup(sort(lst))
  /\ result' = [num |-> law_num, chapter_data |-> dedup(sort(lst))]
  /\ pc' = "returned"
  /\ UNCHANGED << search_str, chapter_num, law_num, is_law_num_mode, nEvents,
                  pushed, sawLawText, sib, wiped, numAttr >>
  /\ UNCHANGED mainVars
  /\ last' = "Eof"

\* An error from the reader that is skipped like an event of no interest.
ErrEvent_Ignored ==
  /\ Reads("Err")
  /\ UNCHANGED << chapter_num, law_num, is_law_num_mode, lst, pc, result,
                  pushed, sawLawText, sib >>
  /\ wiped' = Wiped(chapter_num, chapter_num')

\* Err(e) from the reader: panic.
ErrEvent ==
  /\ Reads("Err")
  /\ pc' = "panicked"
  /\ UNCHANGED << chapter_num, law_num, is_law_num_mode, lst, result,
                  pushed, sawLawText, sib >>
  /\ wiped' = Wiped(chapter_num, chapter_num')

\* Every other event (Empty, Comment, CData, Decl, PI, DocType): `_ => ()`.
OtherEvent ==
  /\ Reads("Other")
  /\ UNCHANGED << chapter_num, law_num, is_law_num_mode, lst, pc, result,
                  pushed, sawLawText, sib >>
  /\ wiped' = Wiped(chapter_num, chapter_num')

Next ==
  \/ StartLawNum
  \/ StartPart
  \/ StartChapter
  \/ StartSection
  \/ StartSubsection
  \/ StartDivision
  \/ StartArticle
  \/ StartParagraph
  \/ StartItem
  \/ StartSubItem1
  \/ StartSubItem2
  \/ StartSubItem3
  \/ StartSubItem4
  \/ StartSubItem5
  \/ StartSubItem6
  \/ StartSubItem7
  \/ StartSupplProvision
  \/ StartOther
  \/ EndLawNum
  \/ EndOther
  \/ \E t \in Texts : TextEvent(t)
  \/ TextUndecodable
  \/ EofEvent
  \/ ErrEvent
  \/ OtherEvent

Spec == Init /\ [][Next]_vars

(***************************************************************************)
(* The result assembler on its own: the match list is drawn from the       *)
(* sequences over a pool of addresses, the stream is at its end, and the   *)
(* only step left is the end of stream.                                    *)
(***************************************************************************)

\* Bound on the length of the match lists drawn.
MaxList == 3

AddrPool ==
  { DefaultChapter,
    [DefaultChapter EXCEPT !.article = S1],
    [DefaultChapter EXCEPT !.article = S12, !.paragraph = Some(S2)],
    [DefaultChapter EXCEPT !.chapter = Some(2), !.article = S1,
                           !.sub_item = Some(<<2, S1>>)],
    [DefaultChapter EXCEPT !.chapter = Some(2), !.article = S1,
                           !.sub_item = Some(<<1, S2>>)],
    [DefaultChapter EXCEPT !.suppl_provision_title = Some(S1)] }

ListsUpTo(n) == UNION {[1..k -> AddrPool] : k \in 0..n}

InitAssemble ==
  /\ search_str \in SearchTerms
  /\ chapter_num = DefaultChapter
  /\ law_num = EmptyStr
  /\ is_law_num_mode = FALSE
  /\ lst \in ListsUpTo(MaxList)
  /\ pc = "loop"
  /\ result = [num |-> EmptyStr, chapter_data |-> <<>>]
  /\ nEvents = MaxEvents
  /\ pushed = lst
  /\ sawLawText = FALSE
  /\ sib = [l \in Levels |-> 0]
  /\ wiped = {}
  /\ last = "StartSupplProvision"
  /\ numAttr = None
  /\ MainIdle

SpecAssemble == InitAssemble /\ [][EofEvent]_vars

(***************************************************************************)
(* main: the output file is written while the indexed documents are taken  *)
(* one after the other.  What opening and searching a document gives is     *)
(* drawn per document: the file does not open, search_xml returns an       *)
(* error, search_xml panics, or search_xml returns a record.               *)
(***************************************************************************)

\* Bound on the number of indexed documents.
MaxDocs == 3

searchVars == << search_str, chapter_num, law_num, is_law_num_mode, lst, pc,
                 result, nEvents, pushed, sawLawText, sib, wiped, last,
                 numAttr >>

\* Records search_xml returns: no match, one address, two addresses.
RecordPool ==
  { [num |-> S21, chapter_data |-> <<>>],
    [num |-> S1,
     chapter_data |-> <<[DefaultChapter EXCEPT !.article = S1,
                                               !.paragraph = Some(S2)]>>],
    [num |-> EmptyStr,
     chapter_data |-> << [DefaultChapter EXCEPT !.suppl_provision_title = Some(S1)],
                         [DefaultChapter EXCEPT !.chapter = Some(2), !.article = S12,
                                                !.sub_item = Some(<<2, S1>>)] >>] }

NoRecord == [num |-> EmptyStr, chapter_data |-> <<>>]

\* What one indexed document gives: opens says whether File::open succeeds,
\* search is the way search_xml ends, rec is the record it returns.
DocPool ==
  { [opens |-> FALSE, search |-> "none", rec |-> NoRecord],
    [opens |-> TRUE, search |-> "failed", rec |-> NoRecord],
    [opens |-> TRUE, search |-> "panicked", rec |-> NoRecord] }
  \cup { [opens |-> TRUE, search |-> "returned", rec |-> r] : r \in RecordPool }

DocLists == UNION {[1..k -> DocPool] : k \in 0..MaxDocs}

\* serde_json::to_string of an address: the members in declaration order,
\* a member whose Option is None left out, article always written.
FieldOrder == << "part", "chapter", "section", "subsection", "division",
                 "article", "paragraph", "item", "sub_item",
                 "suppl_provision_title" >>

JsonChapter(c) ==
  LET kept == SelectSeq(FieldOrder, LAMBDA f : f = "article" \/ c[f] # None)
  IN  [i \in 1..Len(kept) |->
         <<kept[i], IF kept[i] = "article" THEN c.article ELSE c[kept[i]][1]>>]

\* serde_json::to_string of a LawParagraph.
to_string(r) ==
  << <<"num", r.num>>,
     <<"chapter_data",
       [i \in 1..Len(r.chapter_data) |-> JsonChapter(r.chapter_data[i])]>> >>

\* The chunks handed to write_all: literal bytes, or a serialized record.
Bytes(b) == [bytes |-> b, json |-> <<>>]
JsonBytes(r) == [bytes |-> "", json |-> to_string(r)]

InitMain ==
  /\ search_str \in SearchTerms
  /\ chapter_num = DefaultChapter
  /\ law_num = EmptyStr
  /\ is_law_num_mode = FALSE
  /\ lst = <<>>
  /\ pc = "loop"
  /\ result = NoRecord
  /\ nEvents = 0
  /\ pushed = <<>>
  /\ sawLawText = FALSE
  /\ sib = [l \in Levels |-> 0]
  /\ wiped = {}
  /\ last = "none"
  /\ numAttr = None
  /\ raw_data_lst \in DocLists
  /\ idx = 0
  /\ is_head = TRUE
  /\ output_file = <<>>
  /\ mpc = "start"

\* The index is read, the output file is created and "[" is written.
MainStart ==
  /\ mpc = "start"
  /\ output_file' = <<Bytes("[")>>
  /\ is_head' = TRUE
  /\ mpc' = "loop"
  /\ UNCHANGED << raw_data_lst, idx >>
  /\ UNCHANGED searchVars

\* Reading the index or creating the output file fails: `?` returns.
MainStartFails ==
  /\ mpc = "start"
  /\ mpc' = "failed"
  /\ UNCHANGED << raw_data_lst, idx, is_head, output_file >>
  /\ UNCHANGED searchVars

\* The stream yields the next document.
Taking == mpc = "loop" /\ idx < Len(raw_data_lst)

\* A file that does not open is skipped and the loop goes on.
OpenFails_Skip ==
  /\ Taking
  /\ ~raw_data_lst[idx + 1].opens
  /\ idx' = idx + 1
  /\ UNCHANGED << raw_data_lst, is_head, output_file, mpc >>
  /\ UNCHANGED searchVars

\* File::open fails: `?` returns the error.
OpenFails ==
  /\ Taking
  /\ ~raw_data_lst[idx + 1].opens
  /\ mpc' = "failed"
  /\ UNCHANGED << raw_data_lst, idx, is_head, output_file >>
  /\ UNCHANGED searchVars

\* search_xml returns an error: `?` returns it.
SearchFails ==
  /\ Taking
  /\ raw_data_lst[idx + 1].opens
  /\ raw_data_lst[idx + 1].search = "failed"
  /\ mpc' = "failed"
  /\ UNCHANGED << raw_data_lst, idx, is_head, output_file >>
  /\ UNCHANGED searchVars

\* search_xml panics: the panic unwinds through main.
SearchPanics ==
  /\ Taking
  /\ raw_data_lst[idx + 1].opens
  /\ raw_data_lst[idx + 1].search = "panicked"
  /\ mpc' = "panicked"
  /\ UNCHANGED << raw_data_lst, idx, is_head, output_file >>
  /\ UNCHANGED searchVars

\* A returned record that is written with the separator of a later record
\* even when it is the first one.
SearchReturns_AlwaysComma ==
  /\ Taking
  /\ raw_data_lst[idx + 1].opens
  /\ raw_data_lst[idx + 1].search = "returned"
  /\ idx' = idx + 1
  /\ IF raw_data_lst[idx + 1].rec.chapter_data # <<>>
     THEN /\ output_file' = output_file \o
                 << Bytes(",\n"), JsonBytes(raw_data_lst[idx + 1].rec) >>
          /\ is_head' = FALSE
     ELSE UNCHANGED << output_file, is_head >>
  /\ UNCHANGED << raw_data_lst, mpc >>
  /\ UNCHANGED searchVars

\* search_xml returns a record: it is written, after its separator, when its
\* chapter_data is not empty.
SearchReturns ==
  /\ Taking
  /\ raw_data_lst[idx + 1].opens
  /\ raw_data_lst[idx + 1].search = "returned"
  /\ idx' = idx + 1
  /\ IF raw_data_lst[idx + 1].rec.chapter_data # <<>>
     THEN /\ output_file' = output_file \o
                 << Bytes(IF is_head THEN "\n" ELSE ",\n"),
                    JsonBytes(raw_data_lst[idx + 1].rec) >>
          /\ is_head' = FALSE
     ELSE UNCHANGED << output_file, is_head >>
  /\ UNCHANGED << raw_data_lst, mpc >>
  /\ UNCHANGED searchVars

\* The stream is exhausted: "\n]" is written and the file is flushed.
MainFinish ==
  /\ mpc = "loop"
  /\ idx = Len(raw_data_lst)
  /\ output_file' = Append(output_file, Bytes("\n]"))
  /\ mpc' = "done"
  /\ UNCHANGED << raw_data_lst, idx, is_head >>
  /\ UNCHANGED searchVars

NextMain ==
  \/ MainStart
  \/ MainStartFails
  \/ OpenFails
  \/ SearchFails
  \/ SearchPanics
  \/ SearchReturns
  \/ MainFinish

SpecMain == InitMain /\ [][NextMain]_vars

TypeOK ==
  /\ pc \in {"loop", "returned", "failed", "panicked"}
  /\ is_law_num_mode \in BOOLEAN
  /\ nEvents \in 0..MaxEvents
  /\ Len(lst) <= nEvents

(***************************************************************************)
(* Properties.                                                             *)
(***************************************************************************)

\* The start event of the counter kind of level l.
StartOfLevel(l) ==
  CASE l = 1 -> StartPart
    [] l = 2 -> StartChapter
    [] l = 3 -> StartSection
    [] l = 4 -> StartSubsection
    [] l = 5 -> StartDivision

CounterOf(c, l) == c[Counters[l]]

HigherKept(l) ==
  \A m \in Levels : m < l => CounterOf(chapter_num', m) = CounterOf(chapter_num, m)

LowerCleared(l) ==
  \A m \in Levels : m > l => CounterOf(chapter_num', m) = None

OtherCountersKept(l) ==
  \A m \in Levels : m # l => CounterOf(chapter_num', m) = CounterOf(chapter_num, m)

\* After N >= 1 start events of a kind since its counter was unset, with no
\* higher-level and no SupplProvision start in between, the counter is N.
SiblingCount ==
  \A l \in Levels : sib[l] >= 1 => CounterOf(chapter_num, l) = Some(sib[l])

\* C1 as stated: after N sibling start events of kind K from an unset counter
\* the counter of K equals N, and no counter other than K's changes value
\* across those openings.
C1_Original ==
  /\ []SiblingCount
  /\ [][\A l \in Levels : StartOfLevel(l) => OtherCountersKept(l)]_vars

\* C1 as amended: after N sibling start events of kind K from an unset counter
\* the counter of K equals N, and no counter of a level above K changes value
\* across those openings.
C1_SiblingCounter ==
  /\ []SiblingCount
  /\ [][\A l \in Levels : StartOfLevel(l) => HigherKept(l)]_vars

\* Three Sections opened in a row under one Chapter.
C1_Witness ==
  /\ last = "StartSection"
  /\ sib[3] = 3
  /\ chapter_num.section = Some(3)
  /\ chapter_num.chapter = Some(1)

\* Opening a Chapter while a Section is counted: the Section counter changes.
\* C2: opening an element of level L sets every counter below L to None and
\* leaves every counter above L unchanged (so Part, Chapter, Section, Chapter
\* ends with chapter = 2, section = None, part = 1).
C2_Cascade ==
  [][\A l \in Levels : StartOfLevel(l) => LowerCleared(l) /\ HigherKept(l)]_vars

\* The state after Part, Chapter, Section, Chapter: the second Chapter start
\* has just cleared the section counter.
C2_Witness ==
  /\ nEvents = 4
  /\ last = "StartChapter"
  /\ sib[1] = 1
  /\ sib[2] = 2
  /\ "section" \in wiped
  /\ chapter_num.part = Some(1)
  /\ chapter_num.chapter = Some(2)
  /\ chapter_num.section = None

\* C3 as stated: a start event of Part..Division leaves article, paragraph,
\* item, sub_item and suppl_provision_title as they were.
C3_Original ==
  [][\A l \in Levels : StartOfLevel(l) =>
        /\ chapter_num'.article = chapter_num.article
        /\ chapter_num'.paragraph = chapter_num.paragraph
        /\ chapter_num'.item = chapter_num.item
        /\ chapter_num'.sub_item = chapter_num.sub_item
        /\ chapter_num'.suppl_provision_title = chapter_num.suppl_provision_title
    ]_vars

\* C3 as amended: a start event of Part..Division leaves article and
\* suppl_provision_title as they were and sets paragraph, item and sub_item
\* to None.
C3_CounterStartFrame ==
  [][\A l \in Levels : StartOfLevel(l) =>
        /\ chapter_num'.article = chapter_num.article
        /\ chapter_num'.suppl_provision_title = chapter_num.suppl_provision_title
        /\ chapter_num'.paragraph = None
        /\ chapter_num'.item = None
        /\ chapter_num'.sub_item = None
    ]_vars

\* Article, Paragraph, Section: the Section start kept the article and
\* cleared the paragraph.
C3_Witness ==
  /\ last = "StartSection"
  /\ sib[3] = 1
  /\ "paragraph" \in wiped
  /\ chapter_num.article = S1
  /\ chapter_num.paragraph = None

PrimaryClear(c) ==
  /\ \A l \in Levels : CounterOf(c, l) = None
  /\ c.article = EmptyStr
  /\ c.paragraph = None
  /\ c.item = None
  /\ c.sub_item = None

\* The title C4 states for a SupplProvision tag: the AmendLawNum value, or the
\* empty string when the tag has no such attribute.
ClaimedTitle(a) ==
  IF FindAttr(a, "AmendLawNum") = None THEN Some(EmptyStr)
  ELSE FindAttr(a, "AmendLawNum")

\* C4: a SupplProvision start yields an address with every primary field
\* cleared and suppl_provision_title equal to the AmendLawNum value, or to the
\* empty string when the attribute is absent.
C4_Claimed ==
  [][\A a \in TagAttrs : SupplProvisionStart(a) =>
        /\ PrimaryClear(chapter_num')
        /\ chapter_num'.suppl_provision_title = ClaimedTitle(a)
    ]_vars

\* C5 as stated: in the address state and in every recorded address, a set
\* suppl_provision_title excludes every primary-hierarchy field.
C5_Original ==
  /\ IsSome(chapter_num.suppl_provision_title) => PrimaryClear(chapter_num)
  /\ \A i \in 1..Len(lst) :
       IsSome(lst[i].suppl_provision_title) => PrimaryClear(lst[i])

\* C5 as amended: the two sub-spaces exclude each other at entry only.  Every
\* event that changes suppl_provision_title is a SupplProvision start and
\* leaves every primary-hierarchy field cleared; later start events set
\* primary fields while the title keeps its value.
C5_ExclusiveAtEntry ==
  [][chapter_num'.suppl_provision_title # chapter_num.suppl_provision_title =>
        /\ PrimaryClear(chapter_num')
        /\ \E a \in TagAttrs : SupplProvisionStart(a)
    ]_vars

\* An address recorded inside a supplementary provision, under an Article.
C5_Witness ==
  /\ last = "Text"
  /\ Len(lst) = 1
  /\ lst[1] = chapter_num
  /\ chapter_num.suppl_provision_title = Some(S1)
  /\ chapter_num.article = S2

\* The term occurs in the text at some position, read off the subsequences.
IsSubstring(text, term) ==
  \E i \in 0..(Len(text) - Len(term)) : SubSeq(text, i + 1, i + Len(term)) = term

\* C6: a text event outside capture mode appends exactly the current address
\* when the text contains the search term and leaves the match list alone
\* when it does not; it never changes the address state.
C6_TextMatch ==
  [][\A t \in Texts : (TextEvent(t) /\ ~is_law_num_mode) =>
        /\ chapter_num' = chapter_num
        /\ lst' = IF IsSubstring(t, search_str)
                  THEN Append(lst, chapter_num)
                  ELSE lst
    ]_vars

\* Article, then a text with the term inside it, then a text without it: one
\* address, the Article's, is on the list.
C6_Witness ==
  /\ nEvents = 3
  /\ last = "Text"
  /\ lst = <<chapter_num>>
  /\ chapter_num.article = S2

\* C7: capture mode is on exactly from a LawNum start to the next LawNum end;
\* a text event in capture mode overwrites the law identifier with its text
\* and leaves the match list alone whatever the text; nothing else changes the
\* law identifier, and the record returned carries the last one.
C7_CaptureMode ==
  [][/\ is_law_num_mode' = IF last' = "StartLawNum" THEN TRUE
                            ELSE IF last' = "EndLawNum" THEN FALSE
                            ELSE is_law_num_mode
     /\ \A t \in Texts : (TextEvent(t) /\ is_law_num_mode) =>
                            (law_num' = t /\ lst' = lst)
     /\ law_num' # law_num => (last' = "Text" /\ is_law_num_mode)
     /\ last' = "Eof" => result'.num = law_num
    ]_vars

\* LawNum start, a text, then a text equal to the search term: the second
\* text is the law identifier and nothing was appended.
C7_Witness ==
  /\ nEvents = 3
  /\ last = "Text"
  /\ is_law_num_mode
  /\ law_num = search_str
  /\ lst = <<>>

Elems(s) == {s[i] : i \in 1..Len(s)}

StrictlyAscending(s) ==
  \A i \in 1..(Len(s) - 1) : CmpChapter(s[i], s[i + 1]) < 0

\* C8: the chapter_data returned at end of stream is strictly ascending in
\* the derived order (so it holds no two equal addresses) and holds exactly
\* the addresses appended during the stream.
C8_SortedSet ==
  pc = "returned" =>
    /\ StrictlyAscending(result.chapter_data)
    /\ Elems(result.chapter_data) = Elems(pushed)

\* Two different addresses were appended in descending order and returned in
\* ascending order.
C8_Witness ==
  /\ pc = "returned"
  /\ Len(pushed) = 2
  /\ pushed[1] # pushed[2]
  /\ result.chapter_data = <<pushed[2], pushed[1]>>

\* C9: sort followed by dedup, applied to its own output, returns that output.
C9_Idempotent ==
  pc = "returned" => dedup(sort(result.chapter_data)) = result.chapter_data

\* A list of three with its first and last elements equal and its middle one
\* smaller: the assembler both reordered it and dropped a duplicate.
C9_Witness ==
  /\ pc = "returned"
  /\ Len(pushed) = 3
  /\ pushed[1] = pushed[3]
  /\ CmpChapter(pushed[2], pushed[1]) < 0
  /\ result.chapter_data = <<pushed[2], pushed[1]>>

\* C10: an end of stream always returns a record; its num is the captured
\* law identifier, the empty string when no text event occurred in capture
\* mode, and its chapter_data is empty when nothing matched.
C10_RecordAlways ==
  /\ last = "Eof" => pc = "returned"
  /\ pc = "returned" =>
       /\ result.num = law_num
       /\ ~sawLawText => result.num = EmptyStr
       /\ pushed = <<>> => result.chapter_data = <<>>

\* A stream with a law number and no match: the record has the number and an
\* empty chapter_data.
C10_Witness ==
  /\ pc = "returned"
  /\ sawLawText
  /\ pushed = <<>>
  /\ result = [num |-> S21, chapter_data |-> <<>>]

\* The start events whose arm unwraps Num.
NumTags == {"StartArticle", "StartParagraph", "StartItem", "StartSubItem"}

\* The last event was a start event whose arm found no Num to unwrap.
UnwrapNone == last \in NumTags /\ numAttr = None

\* C11: a start event of Article, Paragraph, Item or SubItem1..7 without Num,
\* and an error from the event source, stop the processing at that event:
\* the call has panicked, that event is the last one processed, the match
\* list is as the pushes left it and no record is returned.
C11_FatalStops ==
  /\ UnwrapNone => pc = "panicked"
  /\ last = "Err" => pc = "panicked"
  /\ pc = "panicked" =>
       /\ UnwrapNone \/ last = "Err"
       /\ lst = pushed
       /\ result = NoRecord

\* A paragraph start without Num stopped a call that had one match.
C11_Witness ==
  /\ pc = "panicked"
  /\ last = "StartParagraph"
  /\ Len(lst) = 1
  /\ result = NoRecord

DeeperSet(c) == c.paragraph # None \/ c.item # None \/ c.sub_item # None

\* C12 as claimed: in every address of a returned record, a set paragraph,
\* item or sub_item comes with a non-empty article.
C12_Original ==
  pc = "returned" =>
    \A i \in 1..Len(result.chapter_data) :
      DeeperSet(result.chapter_data[i]) =>
        result.chapter_data[i].article # EmptyStr

\* C12: the article is always present as a string, but may be empty: it is
\* empty at the beginning, and it changes only at an Article start, to its
\* Num, and at a SupplProvision start, to the empty string.  A Paragraph,
\* Item or SubItem start sets its field whatever the article is.
C12_ArticleMayBeEmpty ==
  [][ /\ chapter_num'.article # chapter_num.article =>
           last' \in {"StartArticle", "StartSupplProvision"}
      /\ last' = "StartSupplProvision" => chapter_num'.article = EmptyStr
      /\ (last' = "StartArticle" /\ IsSome(numAttr')) =>
           chapter_num'.article = numAttr'[1]
      /\ (last' \in NumTags \ {"StartArticle"} /\ IsSome(numAttr')) =>
           /\ DeeperSet(chapter_num')
           /\ chapter_num'.article = chapter_num.article
    ]_vars

\* A returned record holds an address with a paragraph and an empty article.
C12_Witness ==
  /\ pc = "returned"
  /\ \E i \in 1..Len(result.chapter_data) :
       /\ result.chapter_data[i].paragraph # None
       /\ result.chapter_data[i].article = EmptyStr

\* C13 as claimed: a SupplProvision start leaves suppl_provision_title set,
\* and a set suppl_provision_title stays set after every later event.
C13_Claimed ==
  [][ /\ last' = "StartSupplProvision" =>
           IsSome(chapter_num'.suppl_provision_title)
      /\ IsSome(chapter_num.suppl_provision_title) =>
           IsSome(chapter_num'.suppl_provision_title)
    ]_vars

\* C14: an Article start with a Num sets article to the Num, sets paragraph,
\* item and sub_item to None and leaves part, chapter, section, subsection,
\* division and suppl_provision_title as they were.
C14_ArticleFrame ==
  [][ (last' = "StartArticle" /\ IsSome(numAttr')) =>
        chapter_num' = [chapter_num EXCEPT !.article = numAttr'[1],
                                           !.paragraph = None,
                                           !.item = None,
                                           !.sub_item = None]
    ]_vars

\* A second Article start, under a chapter, has unset a paragraph.
C14_Witness ==
  /\ last = "StartArticle"
  /\ numAttr = Some(S2)
  /\ chapter_num.article = S2
  /\ chapter_num.chapter = Some(1)
  /\ "paragraph" \in wiped

\* C15: a Paragraph start with a Num sets paragraph to the Num and clears
\* item and sub_item; an Item start with a Num sets item to the Num, clears
\* sub_item and keeps paragraph; both leave the five counters, article and
\* suppl_provision_title as they were.
C15_ParagraphItemFrame ==
  [][ /\ (last' = "StartParagraph" /\ IsSome(numAttr')) =>
           chapter_num' = [chapter_num EXCEPT !.paragraph = numAttr',
                                              !.item = None,
                                              !.sub_item = None]
      /\ (last' = "StartItem" /\ IsSome(numAttr')) =>
           chapter_num' = [chapter_num EXCEPT !.item = numAttr',
                                              !.sub_item = None]
    ]_vars

\* A second Item start under a paragraph has unset a sub-item.
C15_Witness ==
  /\ last = "StartItem"
  /\ chapter_num.paragraph = Some(S1)
  /\ chapter_num.item = Some(S2)
  /\ "sub_item" \in wiped

SubItemDepths == 1..7

\* C16: for k in 1..7 a SubItem<k> start with a Num sets sub_item to the
\* pair (k, Num), whatever it was, and leaves every other field as it was;
\* after every step (and at the beginning, where it is None) sub_item is
\* None or a pair whose depth is in 1..7.
C16_SubItemFrame ==
  [][ /\ chapter_num'.sub_item # None =>
           chapter_num'.sub_item[1][1] \in SubItemDepths
      /\ (last' = "StartSubItem" /\ IsSome(numAttr')) =>
           \A k \in SubItemDepths :
             NumStartWith(k, <<[key |-> "Num", value |-> numAttr'[1]]>>) =>
               chapter_num' =
                 [chapter_num EXCEPT !.sub_item = Some(<<k, numAttr'[1]>>)]
    ]_vars

\* A SubItem7 start has replaced another sub-item under an item.
C16_Witness ==
  /\ last = "StartSubItem"
  /\ nEvents = 3
  /\ chapter_num.item = Some(S1)
  /\ chapter_num.sub_item = Some(<<7, S2>>)
  /\ wiped = {}

\* C17: an end event and a start event of a kind the match does not name
\* change neither the address state nor the match list nor the law
\* identifier; the end of LawNum turns the capture mode off and the others
\* leave it as it was.
C17_EndFrame ==
  [][ last' \in {"EndLawNum", "EndOther", "StartOther"} =>
        /\ chapter_num' = chapter_num
        /\ lst' = lst
        /\ law_num' = law_num
        /\ pc' = pc
        /\ is_law_num_mode' = IF last' = "EndLawNum" THEN FALSE
                                                     ELSE is_law_num_mode
    ]_vars

\* The end of LawNum left the capture mode with the address and the
\* captured identifier in place.
C17_Witness ==
  /\ last = "EndLawNum"
  /\ ~is_law_num_mode
  /\ sawLawText
  /\ law_num # EmptyStr
  /\ chapter_num.article = S1

\* C19: until the end of the stream the match list only grows at its end,
\* by the address state of the moment: no event alters or removes an entry.
C19_AppendOnly ==
  [][ last' # "Eof" => (lst' = lst \/ lst' = Append(lst, chapter_num)) ]_vars

\* An Article start after a match left the recorded address as it was.
C19_Witness ==
  /\ last = "StartArticle"
  /\ Len(lst) = 1
  /\ lst[1].article = S1
  /\ chapter_num.article = S2

\* Opening or searching the document d fails.
Fails(d) == ~d.opens \/ d.search \in {"failed", "panicked"}

\* The chunks the documents docs, all of them searched with success, add to
\* the output: for each record with addresses, in order, a separator and
\* the serialized record; the separator is a newline when no record has
\* been written before (head) and a comma and a newline otherwise.
RECURSIVE Written(_, _)
Written(docs, head) ==
  IF docs = <<>> THEN <<>>
  ELSE IF Head(docs).rec.chapter_data = <<>>
       THEN Written(Tail(docs), head)
       ELSE << Bytes(IF head THEN "\n" ELSE ",\n"), JsonBytes(Head(docs).rec) >>
            \o Written(Tail(docs), FALSE)

\* C18: when main ends with success every document was opened and searched
\* with success, and the output is the opening bracket, then, in index
\* order, the serialized records of exactly the documents whose
\* chapter_data is not empty, a comma before every record but the first
\* one written (and a newline before every record), then a newline and the
\* closing bracket.
C18_OutputArray ==
  mpc = "done" =>
    /\ \A i \in 1..Len(raw_data_lst) : ~Fails(raw_data_lst[i])
    /\ output_file = <<Bytes("[")>> \o Written(raw_data_lst, TRUE)
                                    \o <<Bytes("\n]")>>

\* Three documents, the second without a match: two records are written.
C18_Witness ==
  /\ mpc = "done"
  /\ Len(raw_data_lst) = 3
  /\ raw_data_lst[2].rec.chapter_data = <<>>
  /\ Len(output_file) = 6
  /\ output_file[4] = Bytes(",\n")

\* C20: when opening or searching a document fails, main stops at that
\* document: the documents taken before it all succeeded, none is taken
\* after it, and the output is the opening bracket and the records written
\* for the documents before it, without the closing bracket.
C20_FailureStops ==
  /\ \A i \in 1..idx : ~Fails(raw_data_lst[i])
  /\ (mpc \in {"failed", "panicked"} /\ output_file # <<>>) =>
       /\ idx < Len(raw_data_lst)
       /\ Fails(raw_data_lst[idx + 1])
       /\ output_file = <<Bytes("[")>>
                          \o Written(SubSeq(raw_data_lst, 1, idx), TRUE)
  /\ (\E i \in 1..Len(raw_data_lst) : Fails(raw_data_lst[i])) =>
       /\ mpc # "done"
       /\ Bytes("\n]") \notin Elems(output_file)

\* The second of three documents failed after the record of the first was
\* written.
C20_Witness ==
  /\ mpc \in {"failed", "panicked"}
  /\ Len(raw_data_lst) = 3
  /\ idx = 1
  /\ Len(output_file) = 3
====
